---- MODULE Spec2Model ----
(***************************************************************************)
(* Model of scripts/merge-all-vendors.py: normalize_vendor, merge_vendors  *)
(* (premium > DuckDuckGo > Disconnect, deduplication by domain overlap)    *)
(* and the main() pipeline around it.                                      *)
(*                                                                         *)
(* Strings the code orders, lowercases or concatenates (ids, names,        *)
(* domains) are sequences of character codes, so that sorted(), .lower()   *)
(* and f"{vid}-ddg" are computed as Python computes them.  Strings that    *)
(* are only compared for equality (tier, category, company, field names)   *)
(* are TLA+ strings.  A vendor (a Python dict) is a function from field    *)
(* names to values; a missing key is a name outside its DOMAIN.            *)
(***************************************************************************)
EXTENDS Integers, Sequences, FiniteSets, TLC

----------------------------------------------------------------------------
(* Character-code strings *)

S_x == <<120>>
S_y == <<121>>
S_X == <<88>>
S_d1 == <<100, 49>>
S_d2 == <<100, 50>>
S_d3 == <<100, 51>>
S_e1 == <<101, 49>>
S_e2 == <<101, 50>>
S_unknown == <<117, 110, 107, 110, 111, 119, 110>>
SUFFIX_DDG == <<45, 100, 100, 103>>
SUFFIX_DC == <<45, 100, 99>>
EmptyStr == <<>>

D_a == <<97>>
D_b == <<98>>
D_c == <<99>>
D_B == <<66>>

MinOf(a, b) == IF a < b THEN a ELSE b
MaxOf(a, b) == IF a > b THEN a ELSE b

(* Python's str < str: lexicographic by code point, a proper prefix first *)
LexLess(s, t) ==
  \E k \in 1..(MinOf(Len(s), Len(t)) + 1) :
    /\ \A j \in 1..(k - 1) : s[j] = t[j]
    /\ \/ k > Len(s) /\ k <= Len(t)
       \/ k <= Len(s) /\ k <= Len(t) /\ s[k] < t[k]

MinStr(S) == CHOOSE s \in S : \A t \in S : s = t \/ LexLess(s, t)

(* sorted(list(S)) for a set S of strings *)
RECURSIVE SortedList(_)
SortedList(S) ==
  IF S = {} THEN <<>>
  ELSE LET m == MinStr(S) IN <<m>> \o SortedList(S \ {m})

(* str.lower() on ASCII *)
Lower(s) == [k \in 1..Len(s) |-> IF s[k] \in 65..90 THEN s[k] + 32 ELSE s[k]]

ToSet(seq) == {seq[k] : k \in 1..Len(seq)}

----------------------------------------------------------------------------
(* Python dict helpers *)

Has(v, k) == k \in DOMAIN v
SetDefault(v, k, val) == IF k \in DOMAIN v THEN v ELSE (k :> val) @@ v
Put(f, k, val) == [x \in (DOMAIN f) \cup {k} |-> IF x = k THEN val ELSE f[x]]
PutAll(f, S, val) == [x \in (DOMAIN f) \cup S |-> IF x \in S THEN val ELSE f[x]]
EmptyDict == [x \in {} |-> <<>>]

(* None or a value: the empty sequence or a one-element sequence *)
None == <<>>
Some(x) == <<x>>
(* Python truthiness of `matched_id`: None and '' are both false *)
Truthy(m) == m # None /\ m[1] # EmptyStr

----------------------------------------------------------------------------
VALID_CATEGORIES ==
  {"analytics", "advertising", "social", "cdn", "payments", "chat",
   "heatmaps", "ab_testing", "error_tracking", "tag_manager", "consent",
   "video", "fonts", "security", "push", "forms", "referral", "booking",
   "maps", "web3", "b2b_intelligence", "email_marketing", "other"}

cleanup_fields ==
  {"source", "prevalence", "fingerprinting", "cookies", "sites",
   "disconnect_category", "website"}

(* vendor['domains'] = [d.lower() for d in vendor['domains'] if d] *)
LowerDomains(ds) == LET kept == SelectSeq(ds, LAMBDA d : d # EmptyStr)
                    IN  [k \in 1..Len(kept) |-> Lower(kept[k])]

ClampRiskUpperOnly(s) == MinOf(10, s)
ClampRisk(s) == MaxOf(1, MinOf(10, s))

normalize_vendor(vendor) ==
  LET v1 == SetDefault(vendor, "id", S_unknown)
      v2 == SetDefault(v1, "domains", <<>>)
      v3 == SetDefault(v2, "name", v2["id"])
      v4 == SetDefault(v3, "company", "Unknown")
      v5 == SetDefault(v4, "category", "other")
      v6 == SetDefault(v5, "gdpr_compliant", FALSE)
      v7 == SetDefault(v6, "risk_score", 5)
      v8 == [v7 EXCEPT !["risk_score"] = ClampRisk(@)]
      v9 == IF v8["category"] \notin VALID_CATEGORIES
            THEN [v8 EXCEPT !["category"] = "other"] ELSE v8
  IN  [v9 EXCEPT !["domains"] = LowerDomains(@)]

----------------------------------------------------------------------------
(* merge_vendors: tier marking *)

MarkPremium(list) == [k \in 1..Len(list) |-> Put(list[k], "tier", "premium")]
MarkStandard(list) == [k \in 1..Len(list) |-> SetDefault(list[k], "tier", "standard")]

(* Pass 1, one iteration: index one premium vendor *)
PremiumStep(vbi, dti, v0) ==
  LET v == normalize_vendor(v0)
      vid == v["id"]
  IN  [vbi |-> Put(vbi, vid, v),
       dti |-> PutAll(dti, ToSet(v["domains"]), vid),
       ev |-> "indexed"]

(* vendors_by_id[existing_id].get('tier') == 'premium' *)
IsPremium(r) == Has(r, "tier") /\ r["tier"] = "premium"

(* for domain in v['domains']: first domain whose owner is premium; break *)
RECURSIVE ScanPremium(_, _, _, _)
ScanPremium(doms, k, vbi, dti) ==
  IF k > Len(doms) THEN None
  ELSE IF doms[k] \in DOMAIN dti /\ IsPremium(vbi[dti[doms[k]]])
       THEN Some(dti[doms[k]])
       ELSE ScanPremium(doms, k + 1, vbi, dti)

(* Variant: the loop without its break, the last claimed domain decides *)
RECURSIVE ScanAnyNoBreak(_, _, _)
ScanAnyNoBreak(doms, k, dti) ==
  IF k > Len(doms) THEN None
  ELSE LET rest == ScanAnyNoBreak(doms, k + 1, dti)
       IN  IF rest # None THEN rest
           ELSE IF doms[k] \in DOMAIN dti THEN Some(dti[doms[k]]) ELSE None

(* Variant: the break taken on the first domain, claimed or not *)
ScanAnyFirstOnly(doms, k, dti) ==
  IF k > Len(doms) THEN None
  ELSE IF doms[k] \in DOMAIN dti THEN Some(dti[doms[k]]) ELSE None

(* for domain in v['domains']: first domain present in domain_to_id; break *)
RECURSIVE ScanAny(_, _, _)
ScanAny(doms, k, dti) ==
  IF k > Len(doms) THEN None
  ELSE IF doms[k] \in DOMAIN dti THEN Some(dti[doms[k]])
       ELSE ScanAny(doms, k + 1, dti)

(* new_domains = set(v) - set(existing); extend and register only those *)
EnrichExisting(vbi, dti, mid, v, ev) ==
  LET existing == vbi[mid]
      new_domains == ToSet(v["domains"]) \ ToSet(existing["domains"])
  IN  IF new_domains # {}
      THEN [vbi |-> [vbi EXCEPT ![mid]["domains"] =
                       SortedList(ToSet(existing["domains"]) \cup new_domains)],
            dti |-> PutAll(dti, new_domains, mid),
            ev |-> ev]
      ELSE [vbi |-> vbi, dti |-> dti, ev |-> ev]

(* all_domains = set(existing) | set(v); register every domain of v *)
MergeIntoExisting(vbi, dti, mid, v) ==
  LET existing == vbi[mid]
      all_domains == ToSet(existing["domains"]) \cup ToSet(v["domains"])
  IN  [vbi |-> [vbi EXCEPT ![mid]["domains"] = SortedList(all_domains)],
       dti |-> PutAll(dti, ToSet(v["domains"]), mid),
       ev |-> "merged"]

(* Variant: the suffix carries the number of records indexed so far *)
RenamedIdCounted(vbi, vid, suffix) ==
  IF vid \in DOMAIN vbi
  THEN vid \o suffix \o <<48 + Cardinality(DOMAIN vbi)>> ELSE vid

(* New vendor; on an id collision the id gets the source suffix, once *)
RenamedId(vbi, vid, suffix) == IF vid \in DOMAIN vbi THEN vid \o suffix ELSE vid

AddNewVendor(vbi, dti, v, suffix) ==
  LET vid == RenamedId(vbi, v["id"], suffix)
      v2 == [v EXCEPT !["id"] = vid]
  IN  [vbi |-> Put(vbi, vid, v2),
       dti |-> PutAll(dti, ToSet(v["domains"]), vid),
       ev |-> "added"]

(* Pass 2, one iteration *)
DDGStep(vbi, dti, v0) ==
  LET v == normalize_vendor(v0)
      matched_premium_id == ScanPremium(v["domains"], 1, vbi, dti)
      matched_id == ScanAny(v["domains"], 1, dti)
  IN  IF Truthy(matched_premium_id)
      THEN EnrichExisting(vbi, dti, matched_premium_id[1], v, "enriched")
      ELSE IF Truthy(matched_id)
           THEN MergeIntoExisting(vbi, dti, matched_id[1], v)
           ELSE AddNewVendor(vbi, dti, v, SUFFIX_DDG)

(* Pass 3, one iteration: no premium scan, the first claimed domain decides *)
DCStep(vbi, dti, v0) ==
  LET v == normalize_vendor(v0)
      matched_id == ScanAny(v["domains"], 1, dti)
  IN  IF Truthy(matched_id)
      THEN EnrichExisting(vbi, dti, matched_id[1], v, "merged")
      ELSE AddNewVendor(vbi, dti, v, SUFFIX_DC)

(* Variant: '_import_metadata' is set even when no field was moved *)
CleanRecordAlways(v) ==
  LET meta == (DOMAIN v) \cap cleanup_fields
  IN  [k \in ((DOMAIN v) \ meta) \cup {"_import_metadata"} |->
         IF k = "_import_metadata" THEN [f \in meta |-> v[f]] ELSE v[k]]

(* Clean up: import-specific fields move into '_import_metadata' *)
CleanRecord(v) ==
  LET meta == (DOMAIN v) \cap cleanup_fields
  IN  IF meta = {} THEN v
      ELSE [k \in ((DOMAIN v) \ meta) \cup {"_import_metadata"} |->
              IF k = "_import_metadata" THEN [f \in meta |-> v[f]] ELSE v[k]]

(* result.sort(key=lambda v: v['id']); every record sits under its own id, *)
(* so the keys are the sort keys and they are distinct                     *)
SortById(vbi) ==
  LET ids == SortedList(DOMAIN vbi)
  IN  [n \in 1..Len(ids) |-> vbi[ids[n]]]

CleanUp(vbi) == SortById([k \in DOMAIN vbi |-> CleanRecord(vbi[k])])

EmptyTables == [vbi |-> EmptyDict, dti |-> EmptyDict, ev |-> "none"]

RECURSIVE FoldPremium(_, _, _)
FoldPremium(T, list, k) ==
  IF k = 0 THEN T
  ELSE LET U == FoldPremium(T, list, k - 1) IN PremiumStep(U.vbi, U.dti, list[k])

RECURSIVE FoldDDG(_, _, _)
FoldDDG(T, list, k) ==
  IF k = 0 THEN T
  ELSE LET U == FoldDDG(T, list, k - 1) IN DDGStep(U.vbi, U.dti, list[k])

RECURSIVE FoldDC(_, _, _)
FoldDC(T, list, k) ==
  IF k = 0 THEN T
  ELSE LET U == FoldDC(T, list, k - 1) IN DCStep(U.vbi, U.dti, list[k])

(* The whole function, as one value *)
merge_vendors(p, d, c) ==
  LET P == MarkPremium(p)
      D == MarkStandard(d)
      C == MarkStandard(c)
      T1 == FoldPremium(EmptyTables, P, Len(P))
      T2 == FoldDDG(T1, D, Len(D))
      T3 == FoldDC(T2, C, Len(C))
  IN  CleanUp(T3.vbi)

----------------------------------------------------------------------------
(* Inputs.  Premium records are hand-curated (fields may be missing, a     *)
(* domain may be upper case); the adapters' records carry every field, a   *)
(* 'source' tag and a sorted domain list.  PoolE4 lists its domains in     *)
(* descending order, as a hand-edited import file may.                     *)

PoolPA ==
  [id |-> S_x, domains |-> <<D_c>>, name |-> S_X, company |-> "Acme",
   category |-> "analytics", gdpr_compliant |-> TRUE, risk_score |-> 7,
   tier |-> "premium"]
PoolPB ==
  [id |-> S_x \o SUFFIX_DDG, domains |-> <<D_B, EmptyStr>>,
   category |-> "bogus", risk_score |-> 47]

PoolD1 ==
  [id |-> S_x, domains |-> <<D_a>>, name |-> S_d1, company |-> "Duck1",
   category |-> "advertising", gdpr_compliant |-> FALSE, risk_score |-> 6,
   tier |-> "standard", source |-> "duckduckgo-tracker-radar"]
PoolD2 ==
  [id |-> S_x, domains |-> <<D_b>>, name |-> S_d2, company |-> "Duck2",
   category |-> "cdn", gdpr_compliant |-> FALSE, risk_score |-> 3,
   tier |-> "standard", source |-> "duckduckgo-tracker-radar"]
PoolD3 ==
  [id |-> S_y, domains |-> <<D_a, D_c>>, name |-> S_d3, company |-> "Duck3",
   category |-> "social", gdpr_compliant |-> FALSE, risk_score |-> 10,
   tier |-> "standard", source |-> "duckduckgo-tracker-radar"]
PoolD4 == [PoolD3 EXCEPT !["domains"] = <<D_b>>]

PoolE1 ==
  [id |-> S_x, domains |-> <<D_a>>, name |-> S_e1, company |-> "Disc1",
   category |-> "security", gdpr_compliant |-> FALSE, risk_score |-> 8,
   tier |-> "standard", source |-> "disconnect",
   disconnect_category |-> "FingerprintingInvasive"]
PoolE2 ==
  [id |-> S_y, domains |-> <<D_a, D_b>>, name |-> S_e2, company |-> "Disc2",
   category |-> "consent", gdpr_compliant |-> FALSE, risk_score |-> 1,
   tier |-> "standard", source |-> "disconnect",
   disconnect_category |-> "ConsentManagers"]
PoolE3 == [PoolE2 EXCEPT !["domains"] = <<D_a, D_c>>]
PoolE4 == [PoolE2 EXCEPT !["domains"] = <<D_b, D_a>>]
PoolE5 == [PoolE1 EXCEPT !["id"] = S_x \o SUFFIX_DC, !["domains"] = <<D_c>>]

PremiumPool == {PoolPA, PoolPB}
DDGPool == {PoolD1, PoolD2, PoolD3, PoolD4}
DCPool == {PoolE1, PoolE2, PoolE3, PoolE4, PoolE5}

(* The three lists together hold at most MaxRecords records *)
MaxRecords == 4

SeqsUpTo(S, n) == UNION {[1..k -> S] : k \in 0..n}

----------------------------------------------------------------------------
VARIABLES
  premium, duckduckgo, disconnect,   \* merge_vendors' arguments
  pc, i,                             \* position in merge_vendors, loop index
  vendors_by_id, domain_to_id,       \* the two indices
  ddg_added, ddg_merged, dc_added, dc_merged,
  result,                            \* the returned list
  again,                             \* a second call made on the result
  mpc,                               \* position in main()
  vendors_json,                      \* data/vendors.json
  imports,                           \* the two adapters' output files
  backup_json,                       \* data/vendors-backup.json
  existing_categories,
  npc,                               \* position in a call on one candidate
  candidate,                         \* the shape of that candidate's fields
  outcome                            \* what the call did

vars == <<premium, duckduckgo, disconnect, pc, i, vendors_by_id, domain_to_id,
          ddg_added, ddg_merged, dc_added, dc_merged, result, again,
          mpc, vendors_json, imports, backup_json, existing_categories,
          npc, candidate, outcome>>

normVars == <<npc, candidate, outcome>>

mainVars == <<mpc, vendors_json, imports, backup_json, existing_categories>>

(* No single-candidate call is under way *)
NoCandidate == [f \in {} |-> "absent"]
NoOutcome == [raised |-> FALSE, line |-> 0]

inputs == <<premium, duckduckgo, disconnect>>
counters == <<ddg_added, ddg_merged, dc_added, dc_merged>>

Init ==
  /\ premium \in SeqsUpTo(PremiumPool, MaxRecords)
  /\ duckduckgo \in SeqsUpTo(DDGPool, MaxRecords - Len(premium))
  /\ disconnect \in SeqsUpTo(DCPool, MaxRecords - Len(premium) - Len(duckduckgo))
  /\ pc = "mark_tiers"
  /\ i = 0
  /\ vendors_by_id = EmptyDict
  /\ domain_to_id = EmptyDict
  /\ ddg_added = 0 /\ ddg_merged = 0 /\ dc_added = 0 /\ dc_merged = 0
  /\ result = <<>>
  /\ again = [kind |-> "none"]
  /\ mpc = "merge"
  /\ vendors_json = [exists |-> FALSE]
  /\ imports = [ddg |-> <<>>, dc |-> <<>>]
  /\ backup_json = [exists |-> FALSE]
  /\ existing_categories = <<>>
  /\ npc = "idle" /\ candidate = NoCandidate /\ outcome = NoOutcome

(* for v in premium: v['tier'] = 'premium'; secondaries: setdefault *)
MarkTiers ==
  /\ pc = "mark_tiers"
  /\ premium' = MarkPremium(premium)
  /\ duckduckgo' = MarkStandard(duckduckgo)
  /\ disconnect' = MarkStandard(disconnect)
  /\ pc' = "pass1"
  /\ UNCHANGED <<i, vendors_by_id, domain_to_id, counters, result, again>>
  /\ UNCHANGED <<mainVars, normVars>>

IndexPremium ==
  /\ pc = "pass1" /\ i < Len(premium)
  /\ LET T == PremiumStep(vendors_by_id, domain_to_id, premium[i + 1])
     IN  vendors_by_id' = T.vbi /\ domain_to_id' = T.dti
  /\ i' = i + 1
  /\ UNCHANGED <<inputs, pc, counters, result, again>>
  /\ UNCHANGED <<mainVars, normVars>>

EndPass1 ==
  /\ pc = "pass1" /\ i = Len(premium)
  /\ pc' = "pass2" /\ i' = 0
  /\ UNCHANGED <<inputs, vendors_by_id, domain_to_id, counters, result, again>>
  /\ UNCHANGED <<mainVars, normVars>>

AddDuckDuckGo ==
  /\ pc = "pass2" /\ i < Len(duckduckgo)
  /\ LET T == DDGStep(vendors_by_id, domain_to_id, duckduckgo[i + 1])
     IN  /\ vendors_by_id' = T.vbi /\ domain_to_id' = T.dti
         /\ ddg_added' = IF T.ev = "added" THEN ddg_added + 1 ELSE ddg_added
         /\ ddg_merged' = IF T.ev = "added" THEN ddg_merged ELSE ddg_merged + 1
  /\ i' = i + 1
  /\ UNCHANGED <<inputs, pc, dc_added, dc_merged, result, again>>
  /\ UNCHANGED <<mainVars, normVars>>

EndPass2 ==
  /\ pc = "pass2" /\ i = Len(duckduckgo)
  /\ pc' = "pass3" /\ i' = 0
  /\ UNCHANGED <<inputs, vendors_by_id, domain_to_id, counters, result, again>>
  /\ UNCHANGED <<mainVars, normVars>>

AddDisconnect ==
  /\ pc = "pass3" /\ i < Len(disconnect)
  /\ LET T == DCStep(vendors_by_id, domain_to_id, disconnect[i + 1])
     IN  /\ vendors_by_id' = T.vbi /\ domain_to_id' = T.dti
         /\ dc_added' = IF T.ev = "added" THEN dc_added + 1 ELSE dc_added
         /\ dc_merged' = IF T.ev = "added" THEN dc_merged ELSE dc_merged + 1
  /\ i' = i + 1
  /\ UNCHANGED <<inputs, pc, ddg_added, ddg_merged, result, again>>
  /\ UNCHANGED <<mainVars, normVars>>

(* End of pass 3, clean-up, sort, return *)
Finish ==
  /\ pc = "pass3" /\ i = Len(disconnect)
  /\ result' = CleanUp(vendors_by_id)
  /\ pc' = "done"
  /\ UNCHANGED <<inputs, i, vendors_by_id, domain_to_id, counters, again>>
  /\ UNCHANGED <<mainVars, normVars>>

(* A second call, on the returned list alone: merge_vendors(out, [], []) *)
Remerge ==
  /\ pc = "done"
  /\ again' = [kind |-> "remerge", out |-> merge_vendors(result, <<>>, <<>>)]
  /\ pc' = "remerged"
  /\ UNCHANGED <<inputs, i, vendors_by_id, domain_to_id, counters, result>>
  /\ UNCHANGED <<mainVars, normVars>>

(* The list with the records at positions a and b exchanged; every        *)
(* permutation is a composition of such exchanges                          *)
Swapped(list, a, b) ==
  [k \in 1..Len(list) |-> IF k = a THEN list[b] ELSE IF k = b THEN list[a] ELSE list[k]]

(* A second call, with the records of one secondary list in another order *)
MergePermuted ==
  /\ pc = "done"
  /\ \E which \in {"duckduckgo", "disconnect"} :
       LET list == IF which = "duckduckgo" THEN duckduckgo ELSE disconnect
       IN  \E a, b \in 1..Len(list) :
             /\ a < b
             /\ list[a] # list[b]
             /\ again' =
                  [kind |-> "permuted", which |-> which,
                   list |-> Swapped(list, a, b),
                   out |-> IF which = "duckduckgo"
                           THEN merge_vendors(premium, Swapped(list, a, b), disconnect)
                           ELSE merge_vendors(premium, duckduckgo, Swapped(list, a, b))]
  /\ pc' = "permuted"
  /\ UNCHANGED <<inputs, i, vendors_by_id, domain_to_id, counters, result>>
  /\ UNCHANGED <<mainVars, normVars>>

Next ==
  \/ MarkTiers
  \/ IndexPremium
  \/ EndPass1
  \/ AddDuckDuckGo
  \/ EndPass2
  \/ AddDisconnect
  \/ Finish
  \/ Remerge
  \/ MergePermuted

Spec == Init /\ [][Next]_vars

----------------------------------------------------------------------------
(* main(): load, back up, merge, load the category catalog, save.          *)
(* A JSON document is a record with its kind ("dict", "list", "scalar");   *)
(* a dict carries its keys as fields, a list its elements as `items`.      *)

NEW_CATEGORIES ==
  <<[id |-> "email_marketing", name |-> "Email Marketing",
     description |-> "Email tracking pixels, open tracking, and email marketing platforms",
     risk_level |-> "medium"]>>

NoFile == [exists |-> FALSE]
File(doc) == [exists |-> TRUE, doc |-> doc]
ListDoc(items) == [kind |-> "list", items |-> items]
ScalarDoc == [kind |-> "scalar"]

load_vendors(file) ==
  IF ~file.exists THEN <<>>
  ELSE IF file.doc.kind = "dict" /\ Has(file.doc, "vendors") THEN file.doc.vendors
  ELSE IF file.doc.kind = "list" THEN file.doc.items
  ELSE <<>>

(* data.get('categories', []): only a dict has .get; anything else raises *)
load_categories(file) ==
  IF ~file.exists THEN [raised |-> FALSE, value |-> <<>>]
  ELSE IF file.doc.kind = "dict"
       THEN [raised |-> FALSE,
             value |-> IF Has(file.doc, "categories") THEN file.doc.categories ELSE <<>>]
       ELSE [raised |-> TRUE, value |-> <<>>]

(* for new_cat in NEW_CATEGORIES: append unless its id is in the catalog *)
RECURSIVE AppendNewCategories(_, _)
AppendNewCategories(cats, k) ==
  IF k = 0 THEN cats
  ELSE LET sofar == AppendNewCategories(cats, k - 1)
           existing_cat_ids == {cats[n].id : n \in 1..Len(cats)}
       IN  IF NEW_CATEGORIES[k].id \notin existing_cat_ids
           THEN Append(sofar, NEW_CATEGORIES[k]) ELSE sofar

CatAnalytics ==
  [id |-> "analytics", name |-> "Analytics", description |-> "Web analytics",
   risk_level |-> "medium"]
CategoryCatalogs == {<<>>, <<CatAnalytics>>, <<CatAnalytics>> \o NEW_CATEGORIES}

(* In a run of main() each input file holds at most MaxMainRecords records *)
MaxMainRecords == 2

VendorsJsonShapes ==
  {NoFile, File(ScalarDoc), File([kind |-> "dict"])}
    \cup {File([kind |-> "dict", categories |-> c]) : c \in CategoryCatalogs}
    \cup {File(ListDoc(p)) : p \in SeqsUpTo(PremiumPool, MaxMainRecords)}
    \cup {File([kind |-> "dict", version |-> "2.0.0", vendors |-> p, categories |-> c]) :
            p \in SeqsUpTo(PremiumPool, MaxMainRecords), c \in CategoryCatalogs}

InitMain ==
  /\ vendors_json \in VendorsJsonShapes
  /\ \E d \in {NoFile} \cup {File(ListDoc(l)) : l \in SeqsUpTo(DDGPool, MaxMainRecords)},
        c \in {NoFile} \cup {File(ListDoc(l)) : l \in SeqsUpTo(DCPool, MaxMainRecords)} :
       imports = [ddg |-> d, dc |-> c]
  /\ backup_json = NoFile
  /\ existing_categories = <<>>
  /\ mpc = "load"
  /\ premium = <<>> /\ duckduckgo = <<>> /\ disconnect = <<>>
  /\ pc = "idle"
  /\ i = 0
  /\ vendors_by_id = EmptyDict
  /\ domain_to_id = EmptyDict
  /\ ddg_added = 0 /\ ddg_merged = 0 /\ dc_added = 0 /\ dc_merged = 0
  /\ result = <<>>
  /\ again = [kind |-> "none"]
  /\ npc = "idle" /\ candidate = NoCandidate /\ outcome = NoOutcome

mergeVars == <<pc, i, vendors_by_id, domain_to_id, counters, again>>

LoadDatabases ==
  /\ mpc = "load"
  /\ premium' = load_vendors(vendors_json)
  /\ duckduckgo' = load_vendors(imports.ddg)
  /\ disconnect' = load_vendors(imports.dc)
  /\ mpc' = "backup"
  /\ UNCHANGED <<mergeVars, result, vendors_json, imports, backup_json, existing_categories>>
  /\ UNCHANGED normVars

(* if original_path.exists(): shutil.copy(original_path, backup_path) *)
BackupExisting ==
  /\ mpc = "backup"
  /\ backup_json' = IF vendors_json.exists THEN vendors_json ELSE backup_json
  /\ mpc' = "merge"
  /\ UNCHANGED <<inputs, mergeVars, result, vendors_json, imports, existing_categories>>
  /\ UNCHANGED normVars

(* merged = merge_vendors(premium, duckduckgo, disconnect), then the       *)
(* statistics, which read the merged list and change nothing               *)
MergeAll ==
  /\ mpc = "merge" /\ pc = "idle"
  /\ result' = merge_vendors(premium, duckduckgo, disconnect)
  /\ mpc' = "categories"
  /\ UNCHANGED <<inputs, mergeVars, vendors_json, imports, backup_json, existing_categories>>
  /\ UNCHANGED normVars

LoadCategories ==
  /\ mpc = "categories"
  /\ LET got == load_categories(vendors_json)
     IN  /\ existing_categories' = got.value
         /\ mpc' = IF got.raised THEN "raised" ELSE "save"
  /\ UNCHANGED <<inputs, mergeVars, result, vendors_json, imports, backup_json>>
  /\ UNCHANGED normVars

(* The new catalog, the VendorDatabase document, json.dump to vendors.json *)
SaveDatabase ==
  /\ mpc = "save"
  /\ existing_categories' = AppendNewCategories(existing_categories, Len(NEW_CATEGORIES))
  /\ vendors_json' =
       File([kind |-> "dict", version |-> "3.0.0", last_updated |-> "now",
             vendors |-> result, categories |-> existing_categories'])
  /\ mpc' = "done"
  /\ UNCHANGED <<inputs, mergeVars, result, imports, backup_json>>
  /\ UNCHANGED normVars

NextMain ==
  \/ LoadDatabases
  \/ BackupExisting
  \/ MergeAll
  \/ LoadCategories
  \/ SaveDatabase

SpecMain == InitMain /\ [][NextMain]_vars

----------------------------------------------------------------------------
(* normalize_vendor and merge_vendors on one candidate whose fields may be *)
(* malformed.  A record loaded from JSON is described by the kind of each  *)
(* of its seven fields:                                                    *)
(*   "absent"      the key is missing                                      *)
(*   "ok"          a value of the expected type                            *)
(*   "null"        the key is present and holds None                       *)
(*   "wrong_type"  id, name, company: a number; gdpr_compliant: a string;  *)
(*                 risk_score: a string; category: a list; domains: a list *)
(*                 with a number among its entries                         *)

FieldNames ==
  {"id", "domains", "name", "company", "category", "gdpr_compliant", "risk_score"}
FieldKinds == {"absent", "ok", "null", "wrong_type"}
CandidateShapes == [FieldNames -> FieldKinds]

(* Lines 68-74: setdefault fills a missing key only; a key that holds None *)
(* or a value of another type keeps it.  The default of name is vendor['id'] *)
AfterDefaults(shape) ==
  LET id == IF shape["id"] = "absent" THEN "ok" ELSE shape["id"]
  IN  [f \in FieldNames |->
         IF shape[f] # "absent" THEN shape[f]
         ELSE IF f = "name" THEN id ELSE "ok"]

(* The first line of normalize_vendor that raises, 0 when none does:       *)
(*   77  min(10, None) and min(10, '7') raise TypeError                    *)
(*   80  a list is unhashable: `in VALID_CATEGORIES` raises TypeError      *)
(*       (None is hashable and merely not a member)                        *)
(*   84  None is not iterable (TypeError); a number has no .lower()        *)
(*       (AttributeError)                                                  *)
RaisingLine(shape) ==
  LET s == AfterDefaults(shape)
  IN  IF s["risk_score"] \in {"null", "wrong_type"} THEN 77
      ELSE IF s["category"] = "wrong_type" THEN 80
      ELSE IF s["domains"] \in {"null", "wrong_type"} THEN 84
      ELSE 0

(* normalize_vendor on a shape: it raises, or returns the record's shape   *)
normalize_shape(shape) ==
  IF RaisingLine(shape) # 0
  THEN [raised |-> TRUE, line |-> RaisingLine(shape)]
  ELSE [raised |-> FALSE, line |-> 0,
        shape |-> [AfterDefaults(shape) EXCEPT !["category"] = "ok"]]

(* merge_vendors(companions, [candidate], []): the candidate is normalized *)
(* at line 121, collides with nothing and is stored under its id (None and *)
(* a number are hashable); with a second record in the table the sort at   *)
(* line 222 compares its id with a string, which raises TypeError unless   *)
(* the id is a string                                                      *)
merge_shape(shape, companion) ==
  LET n == normalize_shape(shape)
  IN  IF n.raised THEN n
      ELSE IF companion /\ n.shape["id"] # "ok" THEN [raised |-> TRUE, line |-> 222]
      ELSE n

InitNormalize ==
  /\ npc = "start"
  /\ candidate \in CandidateShapes
  /\ outcome = NoOutcome
  /\ premium = <<>> /\ duckduckgo = <<>> /\ disconnect = <<>>
  /\ pc = "idle"
  /\ i = 0
  /\ vendors_by_id = EmptyDict
  /\ domain_to_id = EmptyDict
  /\ ddg_added = 0 /\ ddg_merged = 0 /\ dc_added = 0 /\ dc_merged = 0
  /\ result = <<>>
  /\ again = [kind |-> "none"]
  /\ mpc = "idle"
  /\ vendors_json = NoFile
  /\ imports = [ddg |-> <<>>, dc |-> <<>>]
  /\ backup_json = NoFile
  /\ existing_categories = <<>>

NormalizeCandidate ==
  /\ npc = "start"
  /\ outcome' = normalize_shape(candidate)
  /\ npc' = "normalized"
  /\ UNCHANGED <<candidate, inputs, mergeVars, result, mainVars>>

(* merge_vendors on the candidate alone, or next to one curated record     *)
MergeCandidate ==
  /\ npc = "start"
  /\ \E companion \in BOOLEAN : outcome' = merge_shape(candidate, companion)
  /\ npc' = "merged"
  /\ UNCHANGED <<candidate, inputs, mergeVars, result, mainVars>>

NextNormalize ==
  \/ NormalizeCandidate
  \/ MergeCandidate

SpecNormalize == InitNormalize /\ [][NextNormalize]_vars

----------------------------------------------------------------------------
(* normalize_vendor and merge_vendors on records whose risk_score is any   *)
(* integer of -MaxScore..MaxScore, 47, or missing.  One record of the      *)
(* three lists, from any source, carries the score.                        *)

MaxScore == 12
Scores == (-MaxScore..MaxScore) \cup {47}

(* The record with risk_score set to the score, or removed when it is None *)
WithScore(v, score) ==
  IF score = None
  THEN [f \in (DOMAIN v) \ {"risk_score"} |-> v[f]]
  ELSE Put(v, "risk_score", score[1])

(* The list with its first record carrying the score *)
Scored(list, score) ==
  [k \in 1..Len(list) |-> IF k = 1 THEN WithScore(list[k], score) ELSE list[k]]

InitClamp ==
  /\ \E score \in {None} \cup {Some(n) : n \in Scores},
        which \in {"premium", "duckduckgo", "disconnect"},
        p \in SeqsUpTo(PremiumPool, 1), d \in SeqsUpTo(DDGPool, 1),
        c \in SeqsUpTo(DCPool, 1) :
       /\ premium = IF which = "premium" THEN Scored(p, score) ELSE p
       /\ duckduckgo = IF which = "duckduckgo" THEN Scored(d, score) ELSE d
       /\ disconnect = IF which = "disconnect" THEN Scored(c, score) ELSE c
  /\ pc = "scored"
  /\ i = 0
  /\ vendors_by_id = EmptyDict
  /\ domain_to_id = EmptyDict
  /\ ddg_added = 0 /\ ddg_merged = 0 /\ dc_added = 0 /\ dc_merged = 0
  /\ result = <<>>
  /\ again = [kind |-> "none"]
  /\ mpc = "idle"
  /\ vendors_json = NoFile
  /\ imports = [ddg |-> <<>>, dc |-> <<>>]
  /\ backup_json = NoFile
  /\ existing_categories = <<>>
  /\ npc = "idle" /\ candidate = NoCandidate /\ outcome = NoOutcome

(* v = normalize_vendor(v) on one record of the lists *)
NormalizeScored ==
  /\ pc = "scored"
  /\ \E list \in {premium, duckduckgo, disconnect} :
       \E k \in 1..Len(list) :
         again' = [kind |-> "normalized", in |-> list[k],
                   out |-> normalize_vendor(list[k])]
  /\ pc' = "normalized"
  /\ UNCHANGED <<inputs, i, vendors_by_id, domain_to_id, counters, result>>
  /\ UNCHANGED <<mainVars, normVars>>

MergeScored ==
  /\ pc = "scored"
  /\ result' = merge_vendors(premium, duckduckgo, disconnect)
  /\ pc' = "clamped"
  /\ UNCHANGED <<inputs, i, vendors_by_id, domain_to_id, counters, again>>
  /\ UNCHANGED <<mainVars, normVars>>

NextClamp ==
  \/ NormalizeScored
  \/ MergeScored

SpecClamp == InitClamp /\ [][NextClamp]_vars

(* Every record sits under its own id; the stepwise run returns what the   *)
(* function returns                                                        *)
KeyIsId == \A k \in DOMAIN vendors_by_id : vendors_by_id[k]["id"] = k
StepwiseIsFunction ==
  pc = "done" => result = merge_vendors(premium, duckduckgo, disconnect)

----------------------------------------------------------------------------
(* Vocabulary of the claims *)

Domains(v) == ToSet(v["domains"])
NonDomainFields(v) == [f \in (DOMAIN v) \ {"domains"} |-> v[f]]

(* A premium input record as the engine takes it in: tier forced, normalized *)
PremiumIn(k) == normalize_vendor(Put(premium[k], "tier", "premium"))
DDGIn(k) == normalize_vendor(SetDefault(duckduckgo[k], "tier", "standard"))
DCIn(k) == normalize_vendor(SetDefault(disconnect[k], "tier", "standard"))

PremiumDomainsDisjoint ==
  \A a, b \in 1..Len(premium) :
    a # b => Domains(PremiumIn(a)) \cap Domains(PremiumIn(b)) = {}
PremiumIdsDistinct ==
  \A a, b \in 1..Len(premium) : a # b => PremiumIn(a)["id"] # PremiumIn(b)["id"]

(* The tables before the k-th record of pass 2 / pass 3 is processed *)
TablesAfterPass1 == FoldPremium(EmptyTables, MarkPremium(premium), Len(premium))
TablesBeforeDDG(k) == FoldDDG(TablesAfterPass1, MarkStandard(duckduckgo), k - 1)
TablesBeforeDC(k) ==
  FoldDC(TablesBeforeDDG(Len(duckduckgo) + 1), MarkStandard(disconnect), k - 1)

(* The candidate the current step is about to process, and the step itself *)
InSecondaryStep == pc \in {"pass2", "pass3"} /\ i' = i + 1
Candidate ==
  IF pc = "pass2" THEN normalize_vendor(duckduckgo[i + 1])
  ELSE normalize_vendor(disconnect[i + 1])
OwnedDomains(v, dti) == {d \in Domains(v) : d \in DOMAIN dti}
PremiumOwnedDomains(v, vbi, dti) ==
  {d \in OwnedDomains(v, dti) : dti[d] \in DOMAIN vbi /\ IsPremium(vbi[dti[d]])}

----------------------------------------------------------------------------
(* C1. Domain uniqueness: when no two premium records share a domain,      *)
(* every domain of the returned list belongs to the domain set of exactly  *)
(* one returned record.                                                    *)
C1_DomainUniqueness ==
  (pc = "done" /\ PremiumDomainsDisjoint) =>
    \A a, b \in 1..Len(result) :
      a # b => Domains(result[a]) \cap Domains(result[b]) = {}

(* C2. Id uniqueness without data loss: a candidate that collides with no  *)
(* domain is inserted as one more record (under its id, or its id plus the *)
(* source suffix when the id is taken) and every record already in the     *)
(* table stays in it unchanged.                                            *)
C2_RenameKeepsRecords ==
  [][(InSecondaryStep /\ OwnedDomains(Candidate, domain_to_id) = {}) =>
       /\ \A k \in DOMAIN vendors_by_id :
            k \in DOMAIN vendors_by_id' /\ vendors_by_id'[k] = vendors_by_id[k]
       /\ Cardinality(DOMAIN vendors_by_id') = Cardinality(DOMAIN vendors_by_id) + 1
       /\ \A a, b \in DOMAIN vendors_by_id' :
            a # b => vendors_by_id'[a]["id"] # vendors_by_id'[b]["id"]]_vars

(* C3. Premium immutability: with premium ids distinct and premium domain  *)
(* sets disjoint, the returned list holds, for every premium input record, *)
(* a record of that id with the same non-domain fields and a superset of   *)
(* its domains.                                                            *)
C3_PremiumImmutability ==
  (pc = "done" /\ PremiumIdsDistinct /\ PremiumDomainsDisjoint) =>
    \A k \in 1..Len(premium) :
      LET r == CleanRecord(PremiumIn(k))
      IN  \E n \in 1..Len(result) :
            /\ result[n]["id"] = r["id"]
            /\ NonDomainFields(result[n]) = NonDomainFields(r)
            /\ Domains(r) \subseteq Domains(result[n])

(* C4. Priority precedence: a domain that a DuckDuckGo record and a        *)
(* Disconnect record both list, and that no premium record owns, is held   *)
(* in the returned list only by records with the id and descriptive fields *)
(* of a DuckDuckGo record.                                                 *)
DescriptiveFields == {"name", "company", "category", "risk_score"}
TracesToDDG(o) ==
  \E k \in 1..Len(duckduckgo) :
    LET r == DDGIn(k)
    IN  /\ o["id"] \in {r["id"], r["id"] \o SUFFIX_DDG}
        /\ \A f \in DescriptiveFields : o[f] = r[f]
DDGDomains == UNION {Domains(DDGIn(k)) : k \in 1..Len(duckduckgo)}
DCDomains == UNION {Domains(DCIn(k)) : k \in 1..Len(disconnect)}
PremiumDomains == UNION {Domains(PremiumIn(k)) : k \in 1..Len(premium)}
PremiumHeld ==
  UNION {Domains(result[n]) : n \in {m \in 1..Len(result) : IsPremium(result[m])}}
C4_PriorityPrecedence ==
  pc = "done" =>
    \A d \in (DDGDomains \cap DCDomains) \ (PremiumDomains \cup PremiumHeld) :
      \A n \in 1..Len(result) : d \in Domains(result[n]) => TracesToDDG(result[n])

(* C5. Premium-collision enrichment in every secondary pass: a candidate   *)
(* with a domain owned by a premium record is merged into a premium record *)
(* that owns one of its domains, no record is created and no non-premium   *)
(* record changes.                                                         *)
C5_EnrichmentEveryPass ==
  [][(InSecondaryStep
      /\ PremiumOwnedDomains(Candidate, vendors_by_id, domain_to_id) # {}) =>
       /\ DOMAIN vendors_by_id' = DOMAIN vendors_by_id
       /\ \E d \in PremiumOwnedDomains(Candidate, vendors_by_id, domain_to_id) :
            Domains(Candidate) \subseteq Domains(vendors_by_id'[domain_to_id[d]])
       /\ \A k \in DOMAIN vendors_by_id :
            ~IsPremium(vendors_by_id[k]) => vendors_by_id'[k] = vendors_by_id[k]]_vars

(* C6. Re-merge, as claimed: merge_vendors(out, [], []) returns out,       *)
(* identical in every record and field, tier included.                     *)
C6_RemergeIdentical == pc = "remerged" => again.out = result

(* C6, amended: merge_vendors(out, [], []) returns out in the same order   *)
(* with every field unchanged except tier, which is 'premium' on every     *)
(* record.                                                                 *)
C6_RemergeIdenticalUpToTier ==
  pc = "remerged" =>
    again.out = [n \in 1..Len(result) |-> Put(result[n], "tier", "premium")]

C6_Witness ==
  /\ pc = "remerged"
  /\ Len(result) >= 2
  /\ \E n \in 1..Len(result) :
       ~IsPremium(result[n]) /\ Has(result[n], "_import_metadata")
  /\ again.out # result

(* C7. Tie-break, as claimed: a candidate whose domains are owned by       *)
(* several records is merged into the owner of its smallest owned domain.  *)
SeveralOwners(v, dti) == Cardinality({dti[d] : d \in OwnedDomains(v, dti)}) >= 2
LeastIndex(S) == CHOOSE k \in S : \A j \in S : k <= j
MergedInto(o) ==
  /\ DOMAIN vendors_by_id' = DOMAIN vendors_by_id
  /\ Domains(Candidate) \subseteq Domains(vendors_by_id'[o])
  /\ NonDomainFields(vendors_by_id'[o]) = NonDomainFields(vendors_by_id[o])
  /\ \A k \in (DOMAIN vendors_by_id) \ {o} : vendors_by_id'[k] = vendors_by_id[k]
ListedOwner(pass, doms, vbi, dti) ==
  LET owned == {k \in 1..Len(doms) : doms[k] \in DOMAIN dti}
      prem == {k \in owned : IsPremium(vbi[dti[doms[k]]])}
  IN  IF pass = "pass2" /\ prem # {}
      THEN dti[doms[LeastIndex(prem)]]
      ELSE dti[doms[LeastIndex(owned)]]
IsSortedList(ds) == \A k \in 1..(Len(ds) - 1) : LexLess(ds[k], ds[k + 1])
AllDomainListsSorted ==
  /\ \A k \in 1..Len(duckduckgo) : IsSortedList(DDGIn(k)["domains"])
  /\ \A k \in 1..Len(disconnect) : IsSortedList(DCIn(k)["domains"])
InputIds ==
  {PremiumIn(k)["id"] : k \in 1..Len(premium)}
    \cup {DDGIn(k)["id"] : k \in 1..Len(duckduckgo)}
    \cup {DCIn(k)["id"] : k \in 1..Len(disconnect)}
Unrelated(list, suffix) ==
  /\ \A a, b \in 1..Len(list) :
       a # b =>
         /\ Domains(normalize_vendor(list[a])) \cap Domains(normalize_vendor(list[b])) = {}
         /\ normalize_vendor(list[a])["id"] # normalize_vendor(list[b])["id"]
  /\ \A a \in 1..Len(list) : normalize_vendor(list[a])["id"] \o suffix \notin InputIds
SuffixOf(which) == IF which = "duckduckgo" THEN SUFFIX_DDG ELSE SUFFIX_DC
CollisionOccurred ==
  \/ \E k \in 1..Len(duckduckgo) :
       OwnedDomains(DDGIn(k), TablesBeforeDDG(k).dti) # {}
  \/ \E k \in 1..Len(disconnect) :
       OwnedDomains(DCIn(k), TablesBeforeDC(k).dti) # {}
InputCount == Len(premium) + Len(duckduckgo) + Len(disconnect)
C10_NoShapeAborts == mpc # "raised"

(* C11. No failure path: whatever the kind of each field of a candidate    *)
(* (absent, well-formed, null, of the wrong type), normalize_vendor returns *)
(* and merge_vendors runs to completion: neither raises.                   *)
C11_NoFailurePath == npc \in {"normalized", "merged"} => ~outcome.raised

(* C12. Clamping: normalize_vendor sets an integer risk_score s to 1 when  *)
(* s < 1, to 10 when s > 10 and leaves it unchanged otherwise, a missing   *)
(* score becomes 5; every record merge_vendors returns, from any of the    *)
(* three sources, has its risk_score in 1..10.                             *)
C12_Clamping ==
  /\ pc = "normalized" =>
       again.out["risk_score"] =
         IF ~Has(again.in, "risk_score") THEN 5
         ELSE IF again.in["risk_score"] < 1 THEN 1
         ELSE IF again.in["risk_score"] > 10 THEN 10
         ELSE again.in["risk_score"]
  /\ pc = "clamped" =>
       \A n \in 1..Len(result) : result[n]["risk_score"] \in 1..10

(* A merge that returned three records, the premium one given a score over *)
(* 10 and a secondary one given a score under 1                            *)
C12_Witness ==
  /\ pc = "clamped"
  /\ Len(result) = 3
  /\ \E k \in 1..Len(premium) :
       Has(premium[k], "risk_score") /\ premium[k]["risk_score"] > 10
  /\ \E list \in {duckduckgo, disconnect} :
       \E k \in 1..Len(list) :
         /\ Has(list[k], "risk_score") /\ list[k]["risk_score"] < 1
         /\ \E n \in 1..Len(result) :
              /\ result[n]["name"] = list[k]["name"]
              /\ result[n]["risk_score"] = 1

(* C13. Domain-index invariant: at every point of merge_vendors every key  *)
(* d of domain_to_id maps to an id that is a key of vendors_by_id, and the *)
(* record under that id lists d among its domains.                         *)
C13_DomainIndexInvariant ==
  \A d \in DOMAIN domain_to_id :
    /\ domain_to_id[d] \in DOMAIN vendors_by_id
    /\ d \in Domains(vendors_by_id[domain_to_id[d]])

====
